---------------------------- MODULE Spec2Model ----------------------------
(***************************************************************************)
(* Single-table relationship store of reinvent-youtube-in-dynamodb.py.     *)
(*                                                                         *)
(* Strings that the program composes or splits (ids, type names, keys)     *)
(* are sequences of one-character strings, so that f"{id}_{name}" is a     *)
(* concatenation and str.split("_")[0] is a scan for the first "_".        *)
(* The table is the set of its items; an item is identified by (pk, sk).   *)
(***************************************************************************)
EXTENDS Integers, Sequences, FiniteSets, TLC

VARIABLES table, pc, req, ret, calls, codec, bo, path, tokens

vars == <<table, pc, req, ret, calls, codec, bo, path, tokens>>

(***************************************************************************)
(* Bounds of the model.                                                    *)
(***************************************************************************)
\* number of calls made in one behaviour
MaxCalls == 3

\* length of the item_type_list given to BusinessOperation
MaxTypes == 3

\* number of segments of a path given to split_path
MaxDepth == 3

\* number of set_one_to_many calls made against the store that keeps tokens
MaxTokenCalls == 4

\* the callers; each runs one call at a time
Procs == {"p1", "p2", "p3"}

(***************************************************************************)
(* Constants of the program.                                               *)
(***************************************************************************)
ROOT == <<"-","-","r","o","o","t","-","-">>

\* the "_" of the f-strings and of split("_")
SEP == "_"

\* an attribute that is None
None == "None"

\* class TypeEnum
TypeEnum == [entity |-> "entity", o2m |-> "o2m", m2m |-> "m2m"]

ItemType(name, type, klass, one_klass, many_klass, left_klass, right_klass) ==
    [name |-> name, type |-> type, klass |-> klass,
     one_klass |-> one_klass, many_klass |-> many_klass,
     left_klass |-> left_klass, right_klass |-> right_klass]

user_type ==
    ItemType(<<"U","S","E","R">>, TypeEnum.entity, "User", None, None, None, None)

video_type ==
    ItemType(<<"V","I","D","E","O">>, TypeEnum.entity, "Video", None, None, None, None)

channel_type ==
    ItemType(<<"C","H","A","N","N","E","L">>, TypeEnum.entity, "Channel",
             None, None, None, None)

playlist_type ==
    ItemType(<<"P","L","A","Y","L","I","S","T">>, TypeEnum.entity, "Playlist",
             None, None, None, None)

video_ownership_type ==
    ItemType(<<"V","I","D","E","O","-","O","W","N","E","R","S","H","I","P">>,
             TypeEnum.o2m, "VideoOwnership", "User", "Video", None, None)

\* channel_ownership_type with the name of video_ownership_type
channel_ownership_type_renamed ==
    ItemType(<<"V","I","D","E","O","-","O","W","N","E","R","S","H","I","P">>,
             TypeEnum.o2m, "ChannelOwnership", "User", "Channel", None, None)

channel_ownership_type ==
    ItemType(<<"C","H","A","N","N","E","L","-","O","W","N","E","R","S","H","I","P">>,
             TypeEnum.o2m, "ChannelOwnership", "User", "Channel", None, None)

playlist_ownership_type ==
    ItemType(<<"P","L","A","Y","L","I","S","T","-","O","W","N","E","R","S","H","I","P">>,
             TypeEnum.o2m, "PlaylistOwnership", "User", "Playlist", None, None)

video_channel_association_type ==
    ItemType(<<"V","I","D","E","O","-","C","H","A","N","N","E","L","-",
               "A","S","S","O","C","I","A","T","I","O","N">>,
             TypeEnum.m2m, "VideoChannelAssociation", None, None, "Video", "Channel")

video_playlist_association_type ==
    ItemType(<<"V","I","D","E","O","-","P","L","A","Y","L","I","S","T","-",
               "A","S","S","O","C","I","A","T","I","O","N">>,
             TypeEnum.m2m, "VideoPlaylistAssociation", None, None, "Video", "Playlist")

viewer_subscribe_youtuber_type ==
    ItemType(<<"V","I","E","W","E","R","-","S","U","B","S","C","R","I","B","E","-",
               "Y","O","U","T","U","B","E","R">>,
             TypeEnum.m2m, "ViewerSubscribeYoutuber", None, None, "User", "User")

viewer_subscribe_channel_type ==
    ItemType(<<"V","I","E","W","E","R","-","S","U","B","S","C","R","I","B","E","-",
               "C","H","A","N","N","E","L">>,
             TypeEnum.m2m, "ViewerSubscribeChannel", None, None, "User", "Channel")

item_type_list ==
    << user_type, video_type, channel_type, playlist_type,
       video_ownership_type, channel_ownership_type, playlist_ownership_type,
       video_channel_association_type, video_playlist_association_type,
       viewer_subscribe_youtuber_type, viewer_subscribe_channel_type >>

Catalog == {item_type_list[i] : i \in DOMAIN item_type_list}

(***************************************************************************)
(* Inputs of the calls.                                                    *)
(***************************************************************************)
\* ids given as the entity, as the many side of an ownership and as the left
\* side of an association: a plain id, and one that holds the "_" of the key
\* composition (the program accepts any string as an id)
Ids ==
    { <<"v","-","1">>,
      <<"v","-","1","_","V","I","D","E","O","-","O","W","N","E","R","S","H","I","P">> }

\* ids given as the one side of an ownership and as the right side of an
\* association
OneIds == { <<"u","-","1">>, <<"u","-","2">> }

\* every id of the model
AllIds == Ids \cup OneIds

\* display names given to new_entity
Names == {"Alice", "Bob"}

\* the item types given to the calls: two entity types, a one-to-many and a
\* many-to-many type
TypesUsed ==
    {user_type, video_type, video_ownership_type, viewer_subscribe_youtuber_type}

(***************************************************************************)
(* Key codec.                                                              *)
(***************************************************************************)
\* JoinKey without the type name
JoinKey_no_type(id, type) == id \o <<SEP>>

\* f"{entity_id}_{type.name}"
JoinKey(id, type) == id \o <<SEP>> \o type.name

\* SplitFirst that splits nothing off
SplitFirst_whole(s) == s

\* s.split("_")[0]
SplitFirst(s) ==
    LET at == {i \in 1..Len(s) : s[i] = SEP}
    IN  IF at = {} THEN s
        ELSE SubSeq(s, 1, (CHOOSE i \in at : \A j \in at : i <= j) - 1)

pk_id(item) == SplitFirst(item.pk)

sk_id(item) == SplitFirst(item.sk)

\* klass(pk=..., sk=..., type=..., name=...)
Item(pk, sk, type, name) == [pk |-> pk, sk |-> sk, type |-> type, name |-> name]

EntityItem(type, id, name) == Item(id, ROOT, type.name, name)

RelationItem(type, a, b) == Item(JoinKey(a, type), JoinKey(b, type), type.name, None)

(***************************************************************************)
(* The table and its secondary index.                                      *)
(***************************************************************************)
\* the item stored under the key of item, if any
SameKey(t, item) == {r \in t : r.pk = item.pk /\ r.sk = item.sk}

\* Model.query(hash_key)
Query(t, hash_key) == {r \in t : r.pk = hash_key}

\* lookup_index.query(hash_key): the index is keyed by sk and projects all
LookupQuery(t, hash_key) == {r \in t : r.sk = hash_key}

\* Model.get(pk, sk), as the set of the items found
Get(t, pk, sk) == {r \in t : r.pk = pk /\ r.sk = sk}

\* a put replaces the item of the same key
Put(t, item) == (t \ SameKey(t, item)) \cup {item}

\* ConditionHolds of a save without its condition
ConditionHolds_always(t, item) == TRUE

\* save(condition=~pk.exists()), save(condition=~(pk.exists() & sk.exists())):
\* the condition is evaluated on the stored item of the same key
ConditionHolds(t, item) == SameKey(t, item) = {}

\* Transact without its deletes
Transact_put_only(t, deletes, item) == Put(t, item)

\* the transaction of set_one_to_many: unconditional deletes and one
\* unconditional put, applied together
Transact(t, deletes, item) == Put({r \in t : SameKey(deletes, r) = {}}, item)

\* a transaction that names one item twice (a delete and the put of the same
\* key) is one the store may refuse
NamesItemTwice(deletes, item) == SameKey(deletes, item) # {}

(***************************************************************************)
(* Queries of BusinessOperation.                                           *)
(***************************************************************************)
\* find_many_by_one that queries the table instead of the index
find_many_by_one_by_pk(t, type, one_entity_id) ==
    Query(t, JoinKey(one_entity_id, type))

\* find_many_by_one_raises without the check
find_many_by_one_raises_never(type) == FALSE

\* find_many_by_one raises ValueError for a type that is not one-to-many
find_many_by_one_raises(type) == type.type # TypeEnum.o2m

find_many_by_one(t, type, one_entity_id) ==
    LookupQuery(t, JoinKey(one_entity_id, type))

find_many_by_many(t, type, entity_id, lookup_by_left) ==
    IF lookup_by_left
    THEN Query(t, JoinKey(entity_id, type))
    ELSE LookupQuery(t, JoinKey(entity_id, type))

list_entities(t, type) == {r \in t : r.type = type.name}

(***************************************************************************)
(* State.                                                                  *)
(***************************************************************************)
NoReq == [type |-> None, many |-> <<>>, one |-> <<>>, r_entities |-> {}]

NoRet == [op |-> None, out |-> None]

NoCodec == [x |-> None, y |-> None, kx |-> <<>>, ky |-> <<>>, done |-> FALSE]

\* no BusinessOperation under construction
NoBo == [item_type_list |-> <<>>, _item_type_mapper |-> <<>>, out |-> None]

\* no path given to the path codec
NoPath ==
    [p |-> <<>>, parent_none |-> FALSE, parent |-> <<>>, name |-> <<>>,
     joined |-> <<>>, at |-> "off"]

Init ==
    /\ table = {}
    /\ pc = [p \in Procs |-> "idle"]
    /\ req = [p \in Procs |-> NoReq]
    /\ ret = [p \in Procs |-> NoRet]
    /\ calls = 0
    /\ tokens = {}
    /\ codec = NoCodec
    /\ bo = NoBo
    /\ path = NoPath

Returns(p, op, out) == ret' = [ret EXCEPT ![p] = [op |-> op, out |-> out]]

Begin(p) ==
    /\ pc[p] = "idle"
    /\ calls < MaxCalls
    /\ calls' = calls + 1
    /\ UNCHANGED <<codec, bo, path, tokens>>

(***************************************************************************)
(* new_entity                                                              *)
(***************************************************************************)
\* new_entity without the check of type.type
new_entity_unchecked(p, type, id, name, save) ==
    /\ Begin(p)
    /\ UNCHANGED <<pc, req>>
    /\ IF ~save
       THEN /\ Returns(p, "new_entity", "entity")
            /\ UNCHANGED table
       ELSE IF ConditionHolds(table, EntityItem(type, id, name))
       THEN /\ table' = Put(table, EntityItem(type, id, name))
            /\ Returns(p, "new_entity", "entity")
       ELSE /\ Returns(p, "new_entity", None)
            /\ UNCHANGED table

new_entity(p, type, id, name, save) ==
    /\ Begin(p)
    /\ UNCHANGED <<pc, req>>
    /\ IF type.type # TypeEnum.entity
       THEN /\ Returns(p, "new_entity", "ValueError")
            /\ UNCHANGED table
       ELSE IF ~save
       THEN /\ Returns(p, "new_entity", "entity")
            /\ UNCHANGED table
       ELSE IF ConditionHolds(table, EntityItem(type, id, name))
       THEN /\ table' = Put(table, EntityItem(type, id, name))
            /\ Returns(p, "new_entity", "entity")
       ELSE /\ Returns(p, "new_entity", None)
            /\ UNCHANGED table

(***************************************************************************)
(* The creation methods named after the entity kinds.                      *)
(***************************************************************************)
new_user(p, id, name, save) == new_entity(p, user_type, id, name, save)

new_video(p, id, name, save) == new_entity(p, video_type, id, name, save)

\* new_channel that passes channel_type
new_channel_as_named(p, id, name, save) == new_entity(p, channel_type, id, name, save)

new_channel(p, id, name, save) == new_entity(p, video_type, id, name, save)

new_playlist(p, id, name, save) == new_entity(p, playlist_type, id, name, save)

list_users(t) == list_entities(t, user_type)

list_videos(t) == list_entities(t, video_type)

list_channels(t) == list_entities(t, channel_type)

list_playlists(t) == list_entities(t, playlist_type)

(***************************************************************************)
(* new_entity run by several callers at once: the check and the building   *)
(* of the item are local to the caller, the conditional save is one        *)
(* request to the store. Each caller makes one call.                       *)
(***************************************************************************)
new_entity_enter(p, type, id, name, save) ==
    /\ Begin(p)
    /\ ret[p] = NoRet
    /\ UNCHANGED table
    /\ IF type.type # TypeEnum.entity
       THEN /\ Returns(p, "new_entity", "ValueError")
            /\ UNCHANGED <<pc, req>>
       ELSE /\ req' = [req EXCEPT ![p] =
                          [entity |-> EntityItem(type, id, name), save |-> save]]
            /\ IF ~save
               THEN /\ Returns(p, "new_entity", "entity")
                    /\ UNCHANGED pc
               ELSE /\ pc' = [pc EXCEPT ![p] = "save"]
                    /\ UNCHANGED ret

\* new_entity_save that puts without a condition
new_entity_save_unconditional(p) ==
    /\ pc[p] = "save"
    /\ pc' = [pc EXCEPT ![p] = "idle"]
    /\ UNCHANGED <<req, calls, codec, bo, path, tokens>>
    /\ table' = Put(table, req[p].entity)
    /\ Returns(p, "new_entity", "entity")

\* entity.save(condition=~klass.pk.exists()); PutError is caught
new_entity_save(p) ==
    /\ pc[p] = "save"
    /\ pc' = [pc EXCEPT ![p] = "idle"]
    /\ UNCHANGED <<req, calls, codec, bo, path, tokens>>
    /\ IF ConditionHolds(table, req[p].entity)
       THEN /\ table' = Put(table, req[p].entity)
            /\ Returns(p, "new_entity", "entity")
       ELSE /\ UNCHANGED table
            /\ Returns(p, "new_entity", None)

(***************************************************************************)
(* set_one_to_many: the check and the query, then the commit of the        *)
(* transaction when the with block is left.                                *)
(***************************************************************************)
set_one_to_many_read(p, type, many_entity_id, one_entity_id) ==
    /\ Begin(p)
    /\ UNCHANGED table
    /\ IF type.type # TypeEnum.o2m
       THEN /\ Returns(p, "set_one_to_many", "ValueError")
            /\ UNCHANGED <<pc, req>>
       ELSE /\ req' = [req EXCEPT ![p] =
                          [type |-> type,
                           many |-> many_entity_id,
                           one |-> one_entity_id,
                           r_entities |-> Query(table, JoinKey(many_entity_id, type))]]
            /\ pc' = [pc EXCEPT ![p] = "commit"]
            /\ UNCHANGED ret

\* klass(pk=f"{many_entity_id}_{type.name}", sk=f"{one_entity_id}_{type.name}",
\*       type=type.name)
NewOwner(r) == RelationItem(r.type, r.many, r.one)

\* set_one_to_many_commit that writes the deletes and the put one after the
\* other instead of in one transaction
set_one_to_many_commit_unbatched(p) ==
    /\ pc[p] = "commit"
    /\ UNCHANGED <<req, calls, codec, bo, path, tokens>>
    /\ \/ /\ \E r \in table : SameKey(req[p].r_entities, r) # {}
          /\ table' = {r \in table : SameKey(req[p].r_entities, r) = {}}
          /\ UNCHANGED <<pc, ret>>
       \/ /\ table' = Put(table, NewOwner(req[p]))
          /\ pc' = [pc EXCEPT ![p] = "idle"]
          /\ Returns(p, "set_one_to_many", "ok")

set_one_to_many_commit(p) ==
    /\ pc[p] = "commit"
    /\ pc' = [pc EXCEPT ![p] = "idle"]
    /\ UNCHANGED <<req, calls, codec, bo, path, tokens>>
    /\ \/ /\ table' = Transact(table, req[p].r_entities, NewOwner(req[p]))
          /\ Returns(p, "set_one_to_many", "ok")
       \/ /\ NamesItemTwice(req[p].r_entities, NewOwner(req[p]))
          /\ UNCHANGED table
          /\ Returns(p, "set_one_to_many", "TransactWriteError")

(***************************************************************************)
(* set_one_to_many against a store that honours client_request_token: a    *)
(* transaction submitted again with the token and the operations of one it *)
(* has executed is not executed again and is answered as the first was.    *)
(***************************************************************************)
\* repr of a class, and of None
klass_repr(klass) ==
    IF klass = None
    THEN <<"N","o","n","e">>
    ELSE <<"<class '", "_","_","m","a","i","n","_","_", ".", klass, "'>">>

\* str(type): the repr that the dataclass generates
ItemType_repr(type) ==
    <<"ItemType(name='">> \o type.name \o <<"', type='", type.type, "', klass=">>
        \o klass_repr(type.klass)
        \o <<", one_klass=">> \o klass_repr(type.one_klass)
        \o <<", many_klass=">> \o klass_repr(type.many_klass)
        \o <<", left_klass=">> \o klass_repr(type.left_klass)
        \o <<", right_klass=">> \o klass_repr(type.right_klass)
        \o <<")">>

\* client_request_token without the one_entity_id
client_request_token_no_one(many_entity_id, one_entity_id, type) ==
    many_entity_id \o <<SEP>> \o <<SEP>> \o ItemType_repr(type)

\* f"{many_entity_id}_{one_entity_id}_{type}"
client_request_token(many_entity_id, one_entity_id, type) ==
    many_entity_id \o <<SEP>> \o one_entity_id \o <<SEP>> \o ItemType_repr(type)

\* the operations of the transaction of a call: the deletes, then the put
Operations(r) == [deletes |-> r.r_entities, put |-> NewOwner(r)]

\* what the store keeps of a transaction it has executed, with the
\* arguments of the call that submitted it
Submission(r) ==
    [token |-> client_request_token(r.many, r.one, r.type),
     operations |-> Operations(r),
     many |-> r.many, one |-> r.one, type |-> r.type]

\* the store has executed these operations under this token
IsReplay(log, sub) ==
    \E e \in log : e.token = sub.token /\ e.operations = sub.operations

\* the store has executed other operations under this token
TokenReused(log, sub) ==
    \E e \in log : e.token = sub.token /\ e.operations # sub.operations

set_one_to_many_read_tokened(p, type, many_entity_id, one_entity_id) ==
    /\ pc[p] = "idle"
    /\ calls < MaxTokenCalls
    /\ calls' = calls + 1
    /\ UNCHANGED <<table, codec, bo, path, tokens>>
    /\ IF type.type # TypeEnum.o2m
       THEN /\ Returns(p, "set_one_to_many", "ValueError")
            /\ UNCHANGED <<pc, req>>
       ELSE /\ req' = [req EXCEPT ![p] =
                          [type |-> type,
                           many |-> many_entity_id,
                           one |-> one_entity_id,
                           r_entities |-> Query(table, JoinKey(many_entity_id, type))]]
            /\ pc' = [pc EXCEPT ![p] = "commit"]
            /\ UNCHANGED ret

set_one_to_many_commit_tokened(p) ==
    /\ pc[p] = "commit"
    /\ pc' = [pc EXCEPT ![p] = "idle"]
    /\ UNCHANGED <<req, calls, codec, bo, path>>
    /\ IF IsReplay(tokens, Submission(req[p]))
       THEN /\ UNCHANGED <<table, tokens>>
            /\ Returns(p, "set_one_to_many", "ok")
       ELSE \/ /\ table' = Transact(table, req[p].r_entities, NewOwner(req[p]))
               /\ tokens' = tokens \cup {Submission(req[p])}
               /\ Returns(p, "set_one_to_many", "ok")
            \/ /\ TokenReused(tokens, Submission(req[p]))
               /\ UNCHANGED <<table, tokens>>
               /\ Returns(p, "set_one_to_many", "TransactWriteError")

(***************************************************************************)
(* set_many_to_many                                                        *)
(***************************************************************************)
\* set_many_to_many that replaces what the left id is linked to, the way
\* set_one_to_many does
set_many_to_many_replacing(p, type, left_entity_id, right_entity_id) ==
    /\ Begin(p)
    /\ UNCHANGED <<pc, req>>
    /\ table' = Transact(table,
                         Query(table, JoinKey(left_entity_id, type)),
                         RelationItem(type, left_entity_id, right_entity_id))
    /\ Returns(p, "set_many_to_many", "ok")

set_many_to_many(p, type, left_entity_id, right_entity_id) ==
    /\ Begin(p)
    /\ UNCHANGED <<pc, req>>
    /\ IF ConditionHolds(table, RelationItem(type, left_entity_id, right_entity_id))
       THEN /\ table' = Put(table, RelationItem(type, left_entity_id, right_entity_id))
            /\ Returns(p, "set_many_to_many", "ok")
       ELSE /\ UNCHANGED table
            /\ Returns(p, "set_many_to_many", "PutError")

(***************************************************************************)
(* find_many_by_one, called: the check, then the query of the index        *)
(***************************************************************************)
find_many_by_one_call(p, type, one_entity_id) ==
    /\ Begin(p)
    /\ UNCHANGED <<table, pc, req>>
    /\ IF find_many_by_one_raises(type)
       THEN ret' = [ret EXCEPT ![p] =
                       [op |-> "find_many_by_one", out |-> "ValueError", found |-> {}]]
       ELSE ret' = [ret EXCEPT ![p] =
                       [op |-> "find_many_by_one", out |-> "list",
                        found |-> find_many_by_one(table, type, one_entity_id)]]

(***************************************************************************)
(* The key codec on its own: two inputs (an item type of the catalog and   *)
(* the ids it is given) and the keys the program composes for them.        *)
(***************************************************************************)
\* an entity takes one id; a relationship takes two
CodecInputs ==
    {[type |-> t, a |-> a, b |-> <<>>] :
        t \in {c \in Catalog : c.type = TypeEnum.entity}, a \in AllIds}
    \cup
    {[type |-> t, a |-> a, b |-> b] :
        t \in {c \in Catalog : c.type # TypeEnum.entity}, a \in AllIds, b \in AllIds}

\* the item the program builds for an input: new_entity for an entity type,
\* set_one_to_many / set_many_to_many for a relationship type
ItemOf(in) ==
    IF in.type.type = TypeEnum.entity
    THEN EntityItem(in.type, in.a, None)
    ELSE RelationItem(in.type, in.a, in.b)

KeyOf(in) == <<ItemOf(in).pk, ItemOf(in).sk>>

CodecInit ==
    /\ table = {}
    /\ pc = [p \in Procs |-> "idle"]
    /\ req = [p \in Procs |-> NoReq]
    /\ ret = [p \in Procs |-> NoRet]
    /\ calls = 0
    /\ tokens = {}
    /\ bo = NoBo
    /\ path = NoPath
    /\ codec \in {[x |-> i, y |-> j, kx |-> <<>>, ky |-> <<>>, done |-> FALSE] :
                     i \in CodecInputs, j \in CodecInputs}

Encode ==
    /\ ~codec.done
    /\ codec' = [codec EXCEPT !.kx = KeyOf(codec.x),
                              !.ky = KeyOf(codec.y),
                              !.done = TRUE]
    /\ UNCHANGED <<table, pc, req, ret, calls, bo, path, tokens>>

(***************************************************************************)
(* BusinessOperation.__post_init__ on its own: the object is built from a  *)
(* list of item types, drawn from types of which two share a name.         *)
(***************************************************************************)
\* an item type that has the name of user_type and another class
clashing_type ==
    ItemType(<<"U","S","E","R">>, TypeEnum.entity, "Video", None, None, None, None)

ListedTypes == {user_type, video_type, video_ownership_type, clashing_type}

\* the lists given as item_type_list
TypeLists == UNION {[1..n -> ListedTypes] : n \in 0..MaxTypes}

\* {item_type.name: item_type for item_type in self.item_type_list}: of two
\* entries with one name the later one stays
item_type_mapper(list) ==
    [n \in {list[i].name : i \in DOMAIN list} |->
        list[CHOOSE i \in DOMAIN list :
                /\ list[i].name = n
                /\ \A j \in DOMAIN list : list[j].name = n => j <= i]]

\* duplicate_name without the comparison
duplicate_name_never(mapper, list) == FALSE

\* len(self._item_type_mapper) != len(self.item_type_list)
duplicate_name(mapper, list) == Cardinality(DOMAIN mapper) # Len(list)

_get_type(b, name) == b._item_type_mapper[name]

CatalogInit ==
    /\ table = {}
    /\ pc = [p \in Procs |-> "idle"]
    /\ req = [p \in Procs |-> NoReq]
    /\ ret = [p \in Procs |-> NoRet]
    /\ calls = 0
    /\ tokens = {}
    /\ codec = NoCodec
    /\ path = NoPath
    /\ bo \in {[item_type_list |-> l, _item_type_mapper |-> <<>>, out |-> None] :
                  l \in TypeLists}

post_init ==
    /\ bo.out = None
    /\ LET mapper == item_type_mapper(bo.item_type_list)
       IN  bo' = [bo EXCEPT !._item_type_mapper = mapper,
                            !.out = IF duplicate_name(mapper, bo.item_type_list)
                                    THEN "ValueError"
                                    ELSE "ok"]
    /\ UNCHANGED <<table, pc, req, ret, calls, codec, path, tokens>>

(***************************************************************************)
(* The path codec of reinvent_aws_s3_in_dynamodb.py: a path is split into  *)
(* the key (pk, sk) of its item, and the key is joined into the path again.*)
(***************************************************************************)
SLASH == "/"

\* the sk of the item of the root directory
ROOT_SK == <<"_","_","r","o","o","t","_","_">>

\* names given to make_dir and make_file: non-empty and without "/"
SegNames == { <<"a">>, <<"b">>, ROOT_SK }

RECURSIVE Slashed(_)
\* "/" before every segment
Slashed(segs) ==
    IF segs = <<>> THEN <<>> ELSE <<SLASH>> \o Head(segs) \o Slashed(Tail(segs))

\* the absolute paths of up to MaxDepth segments, of a file and of a directory
Paths ==
    {<<SLASH>>} \cup
    {Slashed(segs) \o tail :
        segs \in UNION {[1..n -> SegNames] : n \in 1..MaxDepth},
        tail \in {<<>>, <<SLASH>>}}

endswith(s, c) == Len(s) > 0 /\ s[Len(s)] = c

RECURSIVE rsplit(_, _)
\* s.rsplit("/", maxsplit)
rsplit(s, maxsplit) ==
    LET at == {i \in 1..Len(s) : s[i] = SLASH}
    IN  IF maxsplit = 0 \/ at = {}
        THEN <<s>>
        ELSE LET k == CHOOSE i \in at : \A j \in at : j <= i
             IN  rsplit(SubSeq(s, 1, k - 1), maxsplit - 1)
                     \o <<SubSeq(s, k + 1, Len(s))>>

\* the tuple returned by split_path; parent_none says that the first part is
\* None; error says that the unpacking of rsplit raised ValueError
split_path(p) ==
    IF p = <<SLASH>>
    THEN [parent_none |-> TRUE, parent |-> <<>>, name |-> p, error |-> FALSE]
    ELSE IF endswith(p, SLASH)
    THEN LET parts == rsplit(p, 2)
         IN  IF Len(parts) # 3
             THEN [parent_none |-> FALSE, parent |-> <<>>, name |-> <<>>, error |-> TRUE]
             ELSE [parent_none |-> FALSE,
                   parent |-> parts[1] \o <<SLASH>>,
                   name |-> parts[2] \o <<SLASH>>,
                   error |-> FALSE]
    ELSE LET parts == rsplit(p, 1)
         IN  IF Len(parts) # 2
             THEN [parent_none |-> FALSE, parent |-> <<>>, name |-> <<>>, error |-> TRUE]
             ELSE IF parts[1] = <<>>
             THEN [parent_none |-> FALSE, parent |-> <<SLASH>>, name |-> parts[2],
                   error |-> FALSE]
             ELSE [parent_none |-> FALSE, parent |-> parts[1] \o <<SLASH>>,
                   name |-> parts[2], error |-> FALSE]

join_path(pk, sk) == IF sk = ROOT_SK THEN <<SLASH>> ELSE pk \o sk

PathInit ==
    /\ table = {}
    /\ pc = [p \in Procs |-> "idle"]
    /\ req = [p \in Procs |-> NoReq]
    /\ ret = [p \in Procs |-> NoRet]
    /\ calls = 0
    /\ tokens = {}
    /\ codec = NoCodec
    /\ bo = NoBo
    /\ path \in {[NoPath EXCEPT !.p = p, !.at = "given"] : p \in Paths}

\* split_path(path)
split_path_call ==
    /\ path.at = "given"
    /\ path' = [path EXCEPT !.parent_none = split_path(path.p).parent_none,
                            !.parent = split_path(path.p).parent,
                            !.name = split_path(path.p).name,
                            !.at = IF split_path(path.p).error THEN "ValueError"
                                                               ELSE "split"]
    /\ UNCHANGED <<table, pc, req, ret, calls, codec, bo, tokens>>

\* join_path(pk, sk) on the key of the item of the path: the key that
\* split_path returned, and for the root directory the key ("/", "__root__")
\* under which its item is saved
join_path_call ==
    /\ path.at = "split"
    /\ path' = [path EXCEPT !.joined = IF path.parent_none
                                       THEN join_path(<<SLASH>>, ROOT_SK)
                                       ELSE join_path(path.parent, path.name),
                            !.at = "joined"]
    /\ UNCHANGED <<table, pc, req, ret, calls, codec, bo, tokens>>

(***************************************************************************)
(* The file system of reinvent_aws_s3_in_dynamodb.py. Its table "path"     *)
(* holds items of pk and sk only; in the specification of the file system  *)
(* the variable table is that table.                                       *)
(***************************************************************************)
\* Entity(pk=..., sk=...)
PathItem(pk, sk) == [pk |-> pk, sk |-> sk]

\* Entity(pk="/", sk="__root__")
RootItem == PathItem(<<SLASH>>, ROOT_SK)

\* "/" in name
HasSlash(name) == \E i \in 1..Len(name) : name[i] = SLASH

\* exists that finds every path
exists_always(t, dir_path) == TRUE

\* BusinessOperation.exists; split_path does not raise for an absolute path
exists(t, dir_path) ==
    \/ dir_path = <<SLASH>>
    \/ Get(t, split_path(dir_path).parent, split_path(dir_path).name) # {}

\* listdir, as the set of the paths of its list
listdir(t, dir_path) == {join_path(item.pk, item.sk) : item \in Query(t, dir_path)}

\* names given to make_dir and make_file; the last one holds "/"
FsNames == { <<"a">>, <<"b">>, <<"a", SLASH, "b">> }

\* paths given as dir_path: the root, a directory, the same path without
\* the trailing slash (the path of a file), a directory in a directory
FsDirPaths ==
    { <<SLASH>>,
      <<SLASH, "a", SLASH>>,
      <<SLASH, "a">>,
      <<SLASH, "a", SLASH, "b", SLASH>> }

\* the table after the root item is saved
FsInit ==
    /\ table = {RootItem}
    /\ pc = [p \in Procs |-> "idle"]
    /\ req = [p \in Procs |-> NoReq]
    /\ ret = [p \in Procs |-> NoRet]
    /\ calls = 0
    /\ tokens = {}
    /\ codec = NoCodec
    /\ bo = NoBo
    /\ path = NoPath

\* the body shared by make_dir and make_file: sk is f"{name}/" or name
make_entry(p, op, name, dir_path, sk) ==
    /\ Begin(p)
    /\ UNCHANGED <<pc, req>>
    /\ IF HasSlash(name)
       THEN /\ Returns(p, op, "ValueError")
            /\ UNCHANGED table
       ELSE IF split_path(dir_path).error
       THEN /\ Returns(p, op, "ValueError")
            /\ UNCHANGED table
       ELSE IF ~exists(table, dir_path)
       THEN /\ Returns(p, op, "FileNotFoundError")
            /\ UNCHANGED table
       ELSE IF ConditionHolds(table, PathItem(dir_path, sk))
       THEN /\ table' = Put(table, PathItem(dir_path, sk))
            /\ Returns(p, op, "ok")
       ELSE /\ UNCHANGED table
            /\ Returns(p, op, "ok")

make_dir(p, name, dir_path) ==
    make_entry(p, "make_dir", name, dir_path, name \o <<SLASH>>)

make_file(p, name, dir_path) ==
    make_entry(p, "make_file", name, dir_path, name)

MakeDirCall(p) ==
    \E name \in FsNames, dir_path \in FsDirPaths : make_dir(p, name, dir_path)

MakeFileCall(p) ==
    \E name \in FsNames, dir_path \in FsDirPaths : make_file(p, name, dir_path)

(***************************************************************************)
(* The calls, with their inputs.                                           *)
(***************************************************************************)
NewEntityCall(p) ==
    \E type \in TypesUsed, id \in Ids, name \in Names, save \in BOOLEAN :
        new_entity(p, type, id, name, save)

SetOneToManyCall(p) ==
    \E type \in TypesUsed, m \in Ids, o \in OneIds :
        set_one_to_many_read(p, type, m, o)

SetManyToManyCall(p) ==
    \E type \in TypesUsed, l \in Ids, r \in OneIds :
        set_many_to_many(p, type, l, r)

\* the one-to-many types given to the calls against the store with tokens
TokenTypes == {video_ownership_type, channel_ownership_type}

SetOneToManyTokenedCall(p) ==
    \E type \in TokenTypes, m \in Ids, o \in OneIds :
        set_one_to_many_read_tokened(p, type, m, o)

NewUserCall(p) ==
    \E id \in Ids, name \in Names, save \in BOOLEAN : new_user(p, id, name, save)

NewVideoCall(p) ==
    \E id \in Ids, name \in Names, save \in BOOLEAN : new_video(p, id, name, save)

NewChannelCall(p) ==
    \E id \in Ids, name \in Names, save \in BOOLEAN : new_channel(p, id, name, save)

NewPlaylistCall(p) ==
    \E id \in Ids, name \in Names, save \in BOOLEAN : new_playlist(p, id, name, save)

NewEntityEnterCall(p) ==
    \E type \in TypesUsed, id \in Ids, name \in Names, save \in BOOLEAN :
        new_entity_enter(p, type, id, name, save)

FindManyByOneCall(p) ==
    \E type \in TypesUsed, o \in OneIds :
        find_many_by_one_call(p, type, o)

(***************************************************************************)
(* Specifications.                                                         *)
(***************************************************************************)
\* one caller: the calls of the three kinds run one after another
Next ==
    \/ NewEntityCall("p1")
    \/ SetOneToManyCall("p1")
    \/ set_one_to_many_commit("p1")
    \/ SetManyToManyCall("p1")

Spec == Init /\ [][Next]_vars

\* one caller that only sets owners, one call after another
OwnerNext ==
    \/ SetOneToManyCall("p1")
    \/ set_one_to_many_commit("p1")

OwnerSpec == Init /\ [][OwnerNext]_vars

\* callers that set owners at the same time: the query of one call and
\* the commit of its transaction are two steps, and the steps interleave
RaceNext ==
    \E p \in Procs :
        \/ SetOneToManyCall(p)
        \/ set_one_to_many_commit(p)

RaceSpec == Init /\ [][RaceNext]_vars

\* one caller that sets owners and lists what an owner has
ListNext ==
    \/ SetOneToManyCall("p1")
    \/ set_one_to_many_commit("p1")
    \/ FindManyByOneCall("p1")

ListSpec == Init /\ [][ListNext]_vars

\* one caller that makes directories and files, one call after another
FsNext ==
    \/ MakeDirCall("p1")
    \/ MakeFileCall("p1")

FsSpec == FsInit /\ [][FsNext]_vars

\* one caller that creates entities through the methods named after the kinds
FacadeNext ==
    \/ NewUserCall("p1")
    \/ NewVideoCall("p1")
    \/ NewChannelCall("p1")
    \/ NewPlaylistCall("p1")

FacadeSpec == Init /\ [][FacadeNext]_vars

\* callers that create entities at the same time, one call each
CreateNext ==
    \E p \in Procs :
        \/ NewEntityEnterCall(p)
        \/ new_entity_save(p)

CreateSpec == Init /\ [][CreateNext]_vars

\* one caller that sets owners, one call after another, on the store that
\* honours tokens
TokenNext ==
    \/ SetOneToManyTokenedCall("p1")
    \/ set_one_to_many_commit_tokened("p1")

TokenSpec == Init /\ [][TokenNext]_vars

\* the construction of BusinessOperation from every list of item types
CatalogNext == post_init

CatalogSpec == CatalogInit /\ [][CatalogNext]_vars

\* the path codec applied to every path
PathNext ==
    \/ split_path_call
    \/ join_path_call

PathSpec == PathInit /\ [][PathNext]_vars

\* the key codec applied to every pair of inputs
CodecNext == Encode

CodecSpec == CodecInit /\ [][CodecNext]_vars

(***************************************************************************)
(* Properties.                                                             *)
(***************************************************************************)
EntityTypes == {c \in Catalog : c.type = TypeEnum.entity}

O2MTypes == {c \in Catalog : c.type = TypeEnum.o2m}

M2MTypes == {c \in Catalog : c.type = TypeEnum.m2m}

\* the id holds no "_"
Plain(id) == \A i \in 1..Len(id) : id[i] # SEP

\* no call is in progress
Quiet == \A q \in Procs : pc[q] = "idle"

\* caller p has just returned from a set_one_to_many that committed
Committed(p) ==
    /\ pc[p] = "idle"
    /\ ret[p] = [op |-> "set_one_to_many", out |-> "ok"]

\* C1: after any sequence of set_one_to_many calls run one after another, at
\* most one record exists under the primary key "{many_id}_{kind_tag}", for
\* every one-to-many kind_tag and every many_id.
C1_Uniqueness ==
    \A type \in O2MTypes, m \in AllIds :
        Cardinality(Query(table, JoinKey(m, type))) <= 1

\* an owner was replaced by another one, and one record is left
C1_Witness ==
    /\ Committed("p1")
    /\ \E old \in req["p1"].r_entities : old.sk # NewOwner(req["p1"]).sk
    /\ Query(table, NewOwner(req["p1"]).pk) = {NewOwner(req["p1"])}

\* C2: when two set_one_to_many calls for the same kind_tag and many_id and
\* different one_ids run concurrently, then whatever the interleaving of
\* their queries and their commits, the table does not end up with two owner
\* records under "{many_id}_{kind_tag}".
C2_NoTwoOwnersAfterRace ==
    Quiet =>
        \A type \in O2MTypes, m \in AllIds :
            Cardinality({r \in Query(table, JoinKey(m, type)) :
                            r.type = type.name}) <= 1

\* caller p is about to commit, and caller q, who queried before p committed
\* anything for this many_id, has committed another owner for the same
\* kind_tag and many_id since p's query
Overtaken(p, q) ==
    /\ pc[p] = "commit"
    /\ Committed(q)
    /\ req[q].type = req[p].type
    /\ req[q].many = req[p].many
    /\ req[q].one # req[p].one
    /\ NewOwner(req[q]) \in table
    /\ NewOwner(req[q]) \notin req[p].r_entities
    /\ NewOwner(req[p]) \notin req[q].r_entities

\* C3: when two set_one_to_many calls for the same many_id and kind_tag and
\* different one_ids race (both query before either commits), the one that
\* commits second is told of the conflict: it is not reported as successful.
C3_LoserToldConflict ==
    [][\A p \in Procs, q \in Procs :
          (Overtaken(p, q) /\ pc'[p] = "idle") => ret'[p].out # "ok"]_vars

\* the result of find_many_by_one(type, one_id) holds the record of many_id
OwnedBy(t, type, one_id, many_id) ==
    \E e \in find_many_by_one(t, type, one_id) : e.pk = JoinKey(many_id, type)

\* C4: replace semantics: after set_one_to_many(kind_tag, many_id, Y), which
\* may follow set_one_to_many(kind_tag, many_id, X) with X # Y,
\* find_many_by_one(kind_tag, Y) includes many_id and find_many_by_one(kind_tag, X)
\* does not: exactly one of the two, never both, never neither.
C4_ReplaceSemantics ==
    \A p \in Procs :
        Committed(p) =>
            \A x \in AllIds :
                OwnedBy(table, req[p].type, x, req[p].many) <=> (x = req[p].one)

\* the owner X read by the call was replaced by Y
C4_Witness ==
    /\ Committed("p1")
    /\ \E old \in req["p1"].r_entities :
          /\ old.type = req["p1"].type.name
          /\ old.sk # NewOwner(req["p1"]).sk
          /\ old \notin table
    /\ OwnedBy(table, req["p1"].type, req["p1"].one, req["p1"].many)

\* C5: idempotent insert: a set_many_to_many call with the arguments of an
\* earlier call (the edge is stored already) reports success and leaves
\* exactly one record of the edge.
C5_IdempotentInsert ==
    [][\A type \in M2MTypes, l \in Ids, r \in OneIds :
          (/\ RelationItem(type, l, r) \in table
           /\ set_many_to_many("p1", type, l, r))
          => /\ ret'["p1"].out = "ok"
             /\ Get(table', JoinKey(l, type), JoinKey(r, type))
                    = {RelationItem(type, l, r)}]_vars

\* C6: codec collision-freedom: for ids without "_" and kind_tags of the
\* catalog, two different inputs never yield the same (primary_key, sort_key)
\* pair; entities of two kinds with the same id are two records.
C6_CollisionFree ==
    (/\ codec.done
     /\ codec.x # codec.y
     /\ Plain(codec.x.a) /\ Plain(codec.x.b)
     /\ Plain(codec.y.a) /\ Plain(codec.y.b))
    => codec.kx # codec.ky

\* C6 as amended: for ids without "_" and kind_tags of the catalog, two
\* different inputs yield the same (primary_key, sort_key) pair exactly when
\* both are entities with the same id: the key of an entity is (id, ROOT)
\* whatever its kind.
C6_CollisionFreeUpToEntityKind ==
    (/\ codec.done
     /\ codec.x # codec.y
     /\ Plain(codec.x.a) /\ Plain(codec.x.b)
     /\ Plain(codec.y.a) /\ Plain(codec.y.b))
    => ((codec.kx = codec.ky)
          <=> (/\ codec.x.type.type = TypeEnum.entity
               /\ codec.y.type.type = TypeEnum.entity
               /\ codec.x.a = codec.y.a))

\* two entity kinds with one plain id, encoded to the same key
C6_Witness ==
    /\ codec.done
    /\ codec.x.type = user_type
    /\ codec.y.type = video_type
    /\ codec.x.a = codec.y.a
    /\ Plain(codec.x.a)
    /\ codec.kx = codec.ky

\* C7: no cross-kind collision: for two distinct relationship kind_tags A
\* and B of the catalog and all ids id1, id2, the key of the edge (A, id1, id2)
\* differs from the key of the edge (B, id1, id2), and the key of an edge
\* differs from the key (id, ROOT) of every entity.
C7_NoCrossKindCollision ==
    (codec.done /\ codec.x.type.type # TypeEnum.entity) =>
        /\ (/\ codec.y.type.type # TypeEnum.entity
            /\ codec.y.type # codec.x.type
            /\ codec.y.a = codec.x.a
            /\ codec.y.b = codec.x.b) => codec.kx # codec.ky
        /\ (codec.y.type.type = TypeEnum.entity) => codec.kx # codec.ky

\* the same two ids encoded under two relationship kinds
C7_Witness ==
    /\ codec.done
    /\ codec.x.type = video_ownership_type
    /\ codec.y.type = channel_ownership_type
    /\ codec.x.a = codec.y.a
    /\ codec.x.b = codec.y.b
    /\ codec.kx # codec.ky

\* C8: bidirectional query equivalence: in every state reached by new_entity,
\* set_one_to_many and set_many_to_many calls, for every many-to-many
\* kind_tag and all ids, right_id is among the sk_id of
\* find_many_by_many(kind_tag, left_id, lookup_by_left=True) iff left_id is
\* among the pk_id of find_many_by_many(kind_tag, right_id, lookup_by_left=False).
C8_BidirectionalQuery ==
    \A type \in M2MTypes, l \in AllIds, r \in AllIds :
        (r \in {sk_id(e) : e \in find_many_by_many(table, type, l, TRUE)})
        <=> (l \in {pk_id(e) : e \in find_many_by_many(table, type, r, FALSE)})

\* C9: new_entity with save=True does not overwrite: when a record exists
\* under (id, ROOT) the call returns None, without raising, and the stored
\* record keeps its kind_tag and display_name; when none exists the call
\* stores the record and returns it.
C9_NonOverwritingCreate ==
    [][\A type \in EntityTypes, id \in Ids, name \in Names :
          new_entity("p1", type, id, name, TRUE) =>
              IF Get(table, id, ROOT) # {}
              THEN /\ ret'["p1"].out = None
                   /\ Get(table', id, ROOT) = Get(table, id, ROOT)
              ELSE /\ ret'["p1"].out = "entity"
                   /\ Get(table', id, ROOT) = {Item(id, ROOT, type.name, name)}]_vars

\* a create was turned down and the entity is still stored
C9_Witness ==
    /\ ret["p1"] = [op |-> "new_entity", out |-> None]
    /\ \E e \in table : e.sk = ROOT

\* C10: set_many_to_many with a kind_tag that is not many-to-many fails with
\* an invalid-kind error and leaves the table unchanged.
C10_LinkRejectsWrongKind ==
    [][\A type \in Catalog, l \in Ids, r \in OneIds :
          (type.type # TypeEnum.m2m /\ set_many_to_many("p1", type, l, r))
          => /\ ret'["p1"].out = "ValueError"
             /\ table' = table]_vars

\* C11: set_one_to_many and find_many_by_one called with a kind_tag that is
\* not one-to-many fail with ValueError before any read or write of the
\* store: the table is unchanged and no query was made, no transaction begun.
C11_WrongKindRejectedBeforeStore ==
    [][\A type \in Catalog, m \in Ids, o \in OneIds :
          type.type # TypeEnum.o2m =>
              /\ set_one_to_many_read("p1", type, m, o) =>
                    /\ ret'["p1"].op = "set_one_to_many"
                    /\ ret'["p1"].out = "ValueError"
                    /\ table' = table /\ req' = req /\ pc' = pc
              /\ find_many_by_one_call("p1", type, o) =>
                    /\ ret'["p1"].op = "find_many_by_one"
                    /\ ret'["p1"].out = "ValueError"
                    /\ table' = table /\ req' = req /\ pc' = pc]_vars

\* a listing was turned down while the table holds owner records
C11_Witness ==
    /\ ret["p1"].op = "find_many_by_one"
    /\ ret["p1"].out = "ValueError"
    /\ \E r \in table : r.type = video_ownership_type.name

\* C12: new_entity called with a kind_tag that is not of the entity category
\* fails with ValueError and writes nothing, whatever the value of save.
C12_CreateRejectsWrongKind ==
    [][\A type \in Catalog, id \in Ids, name \in Names, save \in BOOLEAN :
          (type.type # TypeEnum.entity /\ new_entity("p1", type, id, name, save))
          => /\ ret'["p1"].out = "ValueError"
             /\ table' = table]_vars

\* a create with a relationship type was turned down on a table with records
C12_Witness ==
    /\ ret["p1"] = [op |-> "new_entity", out |-> "ValueError"]
    /\ table # {}

\* the call in progress writes the record that the call before it, the
\* first one, has committed: it was given identical arguments
Replayed(p) ==
    /\ pc[p] = "commit"
    /\ calls = 2
    /\ ret[p] = [op |-> "set_one_to_many", out |-> "ok"]
    /\ table = {NewOwner(req[p])}
    /\ req[p].r_entities = {NewOwner(req[p])}

\* C13: set_one_to_many called again with the arguments of the call just
\* before it replays the same intent once: the second call succeeds as the
\* first did, and the table after it equals the table after the first, with
\* exactly one record (many_id -> one_id) under "{many_id}_{kind_tag}".
C13_ReplayedOnce ==
    [][(Replayed("p1") /\ set_one_to_many_commit("p1"))
          => /\ ret'["p1"].out = "ok"
             /\ table' = table
             /\ Query(table', NewOwner(req["p1"]).pk) = {NewOwner(req["p1"])}]_vars

\* the owner records stored for many_id under a one-to-many kind_tag
OwnerRecords(t, type, many_id) ==
    {r \in Query(t, JoinKey(many_id, type)) : r.type = type.name}

\* C14: atomic replacement: once a set_one_to_many call for (kind_tag,
\* many_id) has committed, every later state, the states between the steps
\* of later and of concurrent set_one_to_many calls for the same many_id
\* included, holds at least one owner record under "{many_id}_{kind_tag}":
\* no step leaves the old owner record deleted and the new one not written.
C14_AtomicReplacement ==
    [][\A type \in O2MTypes, m \in AllIds :
          OwnerRecords(table, type, m) # {} => OwnerRecords(table', type, m) # {}]_vars

\* p1 has replaced the owner it read while p2 is between its query and its
\* commit for the same many_id
C14_Witness ==
    /\ Committed("p1")
    /\ pc["p2"] = "commit"
    /\ req["p2"].many = req["p1"].many
    /\ \E old \in req["p1"].r_entities : old \notin table
    /\ OwnerRecords(table, req["p1"].type, req["p1"].many) = {NewOwner(req["p1"])}

\* the entity records of the table: the items stored under (id, ROOT)
EntityRecords(t) == {r \in t : r.sk = ROOT}

\* C15: entity records are never mutated by edge operations: whatever ids
\* and kind_tags set_one_to_many and set_many_to_many are given, a step of
\* theirs creates no entity record, deletes none and changes none, so every
\* entity stored by new_entity stays under (id, ROOT) with its kind_tag and
\* display_name.
C15_EdgeOpsKeepEntities ==
    [][(\/ pc["p1"] = "idle" /\ pc'["p1"] = "commit"
        \/ set_one_to_many_commit("p1")
        \/ SetManyToManyCall("p1"))
          => EntityRecords(table') = EntityRecords(table)]_vars

\* the many_ids listed for one_id: the pk_id of the records returned by
\* find_many_by_one
ListedFor(t, type, one_id) == {pk_id(e) : e \in find_many_by_one(t, type, one_id)}

\* C16: find_many_by_one is exact: once set_one_to_many(kind_tag, many_id,
\* one_id) has committed (the most recent set_one_to_many for many_id), the
\* pk_id values listed for one_id hold many_id and the pk_id values listed
\* for every other one_id do not, whatever calls of new_entity,
\* set_one_to_many and set_many_to_many ran before.
C16_ListOwnedByExact ==
    [][set_one_to_many_commit("p1") /\ ret'["p1"].out = "ok"
          => \A u \in AllIds :
                (req["p1"].many \in ListedFor(table', req["p1"].type, u))
                    <=> (u = req["p1"].one)]_vars

\* the right ids listed for left_id, read through sk_id
RightsOf(t, type, left_id) ==
    {sk_id(e) : e \in find_many_by_many(t, type, left_id, TRUE)}

\* the left ids listed for right_id, read through pk_id
LeftsOf(t, type, right_id) ==
    {pk_id(e) : e \in find_many_by_many(t, type, right_id, FALSE)}

\* C17: many-to-many listings are exact: find_many_by_many by the left id
\* returns, through sk_id, exactly the right ids linked to it, and by the
\* right id, through pk_id, exactly the left ids linked to it. A call
\* set_many_to_many(kind_tag, left_id, right_id) changes the two listings by
\* this one link and nothing else: right_id is listed for left_id, left_id
\* is listed for right_id, and no other id enters or leaves either listing.
C17_ManyToManyListingsExact ==
    [][\A type \in M2MTypes, l \in Ids, r \in OneIds :
          set_many_to_many("p1", type, l, r) =>
              /\ RightsOf(table', type, l) = RightsOf(table, type, l) \cup {r}
              /\ LeftsOf(table', type, r) = LeftsOf(table, type, r) \cup {l}]_vars

\* two entries of the list have one name
SharesName(list) ==
    \E i \in DOMAIN list, j \in DOMAIN list : i # j /\ list[i].name = list[j].name

\* C18: building BusinessOperation from a list of item types in which two
\* entries share a name fails with ValueError; when all names differ it
\* succeeds, and _get_type maps every name of the list to its own item type.
C18_DuplicateNameRejected ==
    bo.out # None =>
        /\ SharesName(bo.item_type_list) <=> bo.out = "ValueError"
        /\ bo.out = "ok" =>
              \A i \in DOMAIN bo.item_type_list :
                  _get_type(bo, bo.item_type_list[i].name) = bo.item_type_list[i]

\* a list that holds two different item types of one name was turned down
C18_Witness ==
    /\ bo.out = "ValueError"
    /\ \E i \in DOMAIN bo.item_type_list, j \in DOMAIN bo.item_type_list :
          /\ bo.item_type_list[i] = user_type
          /\ bo.item_type_list[j] = clashing_type

\* C19: set_many_to_many is a pure set-insertion: a call adds at most the
\* one record ("{left_id}_{kind_tag}", "{right_id}_{kind_tag}") and neither
\* deletes nor changes any other record, so the records of the table only
\* grow under set_many_to_many calls.
C19_PureInsertion ==
    [][\A type \in Catalog, l \in Ids, r \in OneIds :
          set_many_to_many("p1", type, l, r) =>
              /\ table \subseteq table'
              /\ table' \subseteq table \cup {RelationItem(type, l, r)}]_vars

\* a second right id was linked to a left id and the first link is kept
C19_Witness ==
    /\ ret["p1"] = [op |-> "set_many_to_many", out |-> "ok"]
    /\ \E a \in table, b \in table :
          /\ a.type = viewer_subscribe_youtuber_type.name
          /\ b.type = viewer_subscribe_youtuber_type.name
          /\ a.pk = b.pk
          /\ a.sk # b.sk

\* C20: path codec round trip: for every absolute path p other than "/"
\* built from non-empty segment names without "/", with or without a
\* trailing slash, split_path(p) returns (parent, name) with parent ending
\* in "/" and join_path(parent, name) = p; split_path("/") returns
\* (None, "/") and join_path("/", "__root__") returns "/".
C20_PathRoundTrip ==
    /\ path.at # "ValueError"
    /\ path.at \in {"split", "joined"} =>
          IF path.p = <<SLASH>>
          THEN path.parent_none /\ path.name = <<SLASH>>
          ELSE ~path.parent_none /\ endswith(path.parent, SLASH)
    /\ path.at = "joined" => path.joined = path.p

\* C21: last call wins: on a store that honours tokens, after every
\* set_one_to_many call that returns successfully, run one after another,
\* the single owner record under "{many_id}_{kind_tag}" names the one_id of
\* that call, the last one; also when the call returns to an earlier owner
\* and so reuses the token of an earlier call.
C21_LastCallWins ==
    [][(set_one_to_many_commit_tokened("p1") /\ ret'["p1"].out = "ok")
          => Query(table', NewOwner(req["p1"]).pk) = {NewOwner(req["p1"])}]_vars

\* C23: two set_one_to_many calls carry the same token if and only if they
\* have the same (many_id, one_id, kind_tag), for ids without "_": the
\* transactions that the store has executed have equal tokens exactly when
\* their calls had equal arguments, so none is taken for the replay of a
\* call with other arguments.
C23_TokenNamesTheTriple ==
    \A e1 \in tokens, e2 \in tokens :
        (Plain(e1.many) /\ Plain(e1.one) /\ Plain(e2.many) /\ Plain(e2.one)) =>
            ((e1.token = e2.token)
                <=> (e1.many = e2.many /\ e1.one = e2.one /\ e1.type = e2.type))

\* the store has executed two transactions of calls with one triple, and
\* transactions of calls that differ in the one_id only and in the kind_tag
\* only
C23_Witness ==
    /\ \E e1 \in tokens, e2 \in tokens : e1 # e2 /\ e1.token = e2.token
    /\ \E e1 \in tokens, e2 \in tokens :
          /\ e1.many = e2.many /\ e1.type = e2.type /\ e1.one # e2.one
          /\ Plain(e1.many)
    /\ \E e1 \in tokens, e2 \in tokens :
          /\ e1.many = e2.many /\ e1.one = e2.one /\ e1.type # e2.type
          /\ Plain(e1.many)

\* the call of p is about to commit and nothing has touched the records of
\* its primary key since its query: no other call is in progress and the
\* records it found are the records stored
Uninterrupted(p) ==
    /\ pc[p] = "commit"
    /\ \A q \in Procs \ {p} : pc[q] = "idle"
    /\ req[p].r_entities = Query(table, NewOwner(req[p]).pk)

\* C22: consistency repair: from a table with n >= 0 records under
\* "{many_id}_{kind_tag}", more than one included, one uninterrupted
\* set_one_to_many(kind_tag, many_id, one_id) commits the deletion of all of
\* them with the put of the new record and leaves exactly one record under
\* that primary key, with sort key "{one_id}_{kind_tag}"; also when one_id is
\* among the owners found.
C22_ConsistencyRepair ==
    [][\A p \in Procs :
          (Uninterrupted(p) /\ set_one_to_many_commit(p))
          => /\ ret'[p].out = "ok"
             /\ Query(table', NewOwner(req[p]).pk) = {NewOwner(req[p])}]_vars

\* the callers that have returned from new_entity(.., id, .., save=True)
Created(id) ==
    {p \in Procs : /\ pc[p] = "idle"
                   /\ ret[p].op = "new_entity"
                   /\ ret[p].out \in {"entity", None}
                   /\ req[p].save
                   /\ req[p].entity.pk = id}

\* C24: when new_entity calls with the same id run concurrently, two or
\* more of them, exactly one returns the created entity and every other
\* returns None, and the stored record carries the kind_tag and the
\* display_name of the call that returned the entity.
C24_OneCreatorWins ==
    \A id \in Ids :
        Created(id) # {} =>
            \E w \in Created(id) :
                /\ ret[w].out = "entity"
                /\ Get(table, id, ROOT) = {req[w].entity}
                /\ \A p \in Created(id) \ {w} : ret[p].out = None

\* three callers have created the id 'v-1', with two kinds and two names
\* between them, and all have returned; the second caller is the one whose
\* item was stored
C24_Witness ==
    /\ Created(<<"v","-","1">>) = Procs
    /\ ret["p2"].out = "entity"
    /\ req["p1"].entity.type # req["p2"].entity.type
    /\ req["p3"].entity.name # req["p2"].entity.name

\* the ids of the records of a listing
IdsOf(listing) == {r.pk : r \in listing}

\* after a creation of a fresh id, the stored record has the kind_tag of
\* type, and the id is in the listing of that kind and in no other
StoredAs(t, id, type) ==
    /\ \A r \in Get(t, id, ROOT) : r.type = type.name
    /\ Get(t, id, ROOT) # {}
    /\ id \in IdsOf(list_users(t)) <=> type = user_type
    /\ id \in IdsOf(list_videos(t)) <=> type = video_type
    /\ id \in IdsOf(list_channels(t)) <=> type = channel_type
    /\ id \in IdsOf(list_playlists(t)) <=> type = playlist_type

\* C25: each creation method stores a record of the entity kind it is named
\* after: when new_user, new_video, new_channel or new_playlist succeeds for
\* a fresh id, the stored record has the kind_tag USER, VIDEO, CHANNEL or
\* PLAYLIST, and the id is returned by list_users, list_videos,
\* list_channels or list_playlists respectively, and by no other of them.
C25_FacadeStoresItsKind ==
    [][\A id \in Ids, name \in Names :
          Get(table, id, ROOT) = {} =>
              /\ new_user("p1", id, name, TRUE) => StoredAs(table', id, user_type)
              /\ new_video("p1", id, name, TRUE) => StoredAs(table', id, video_type)
              /\ new_channel("p1", id, name, TRUE) => StoredAs(table', id, channel_type)
              /\ new_playlist("p1", id, name, TRUE)
                    => StoredAs(table', id, playlist_type)]_vars

\* the record stored under the key that was composed for the input x
Encoded == [pk |-> codec.kx[1], sk |-> codec.kx[2]]

EntryAt(t, p) == p = <<SLASH>> \/ \E r \in t : r.pk \o r.sk = p

\* what a call of make_dir / make_file with the sort key sk is to do
MakesEntry(name, dir_path, sk) ==
    IF HasSlash(name)
    THEN ret'["p1"].out = "ValueError" /\ table' = table
    ELSE IF ~EntryAt(table, dir_path)
    THEN ret'["p1"].out = "FileNotFoundError" /\ table' = table
    ELSE IF PathItem(dir_path, sk) \in table
    THEN ret'["p1"].out = "ok" /\ table' = table
    ELSE /\ ret'["p1"].out = "ok"
         /\ table' = table \cup {PathItem(dir_path, sk)}
         /\ Cardinality(table') = Cardinality(table) + 1

\* C27: make_dir and make_file fail without a change of the table when the
\* name holds "/" (ValueError) or when dir_path does not exist
\* (FileNotFoundError); when the entry exists already the call returns
\* normally and the table is unchanged; otherwise exactly the one record
\* (dir_path, name + "/") or (dir_path, name) is added.
C27_MakeEntry ==
    [][\A name \in FsNames, dir_path \in FsDirPaths :
          /\ make_dir("p1", name, dir_path)
                => MakesEntry(name, dir_path, name \o <<SLASH>>)
          /\ make_file("p1", name, dir_path)
                => MakesEntry(name, dir_path, name)]_vars

\* a file was refused for a directory that does not exist, on a table that
\* holds another directory with a file in it
C27_Witness ==
    /\ ret["p1"] = [op |-> "make_file", out |-> "FileNotFoundError"]
    /\ PathItem(<<SLASH>>, <<"a", SLASH>>) \in table
    /\ PathItem(<<SLASH, "a", SLASH>>, <<"a">>) \in table
    /\ PathItem(<<SLASH, "a", SLASH>>, <<"b", SLASH>>) \notin table

\* C28: after any sequence of make_dir and make_file calls from the table
\* that holds the root record only, the tree is well formed: every record
\* other than the root has as primary key "/" or the full path of a stored
\* directory (a record whose sort key ends in "/"), and
\* exists(join_path(pk, sk)) is true for every stored record.
C28_WellFormedTree ==
    \A r \in table :
        /\ r # RootItem =>
              \/ r.pk = <<SLASH>>
              \/ \E d \in table : /\ endswith(d.sk, SLASH)
                                   /\ join_path(d.pk, d.sk) = r.pk
        /\ exists(table, join_path(r.pk, r.sk))

\* the paths of the entries made directly under dir_path
MadeUnder(t, dir_path) == {r.pk \o r.sk : r \in {e \in t \ {RootItem} : e.pk = dir_path}}

\* C29: listdir(dir_path) returns exactly the paths of the directories and
\* files made directly under dir_path by make_dir and make_file: it does not
\* hold dir_path itself, also for dir_path = "/", and no entry of a deeper
\* or of another directory.
C29_ListdirExact ==
    \A dir_path \in FsDirPaths :
        /\ listdir(table, dir_path) = MadeUnder(table, dir_path)
        /\ dir_path \notin listdir(table, dir_path)

=============================================================================
